---- MODULE Spec2Model ----
(***************************************************************************)
(* A state-machine model of the WalletLink connection engine of            *)
(* coinbase-wallet-sdk:                                                    *)
(*                                                                         *)
(*   - the transport, class WalletLinkWebSocket (connect, onopen, onclose, *)
(*     onmessage, disconnect, sendData, clearWebSocket);                   *)
(*   - the request correlator (makeRequest, requestResolutions and the     *)
(*     reply routing of onmessage);                                        *)
(*   - the handshake run on open (authenticate, sendIsLinked,              *)
(*     sendGetSessionConfig, sendHeartbeat, sendPendingMessages);          *)
(*   - the engine, class WalletLinkConnection (connect, destroy,           *)
(*     reconnect, websocketConnected, the connected setter,                *)
(*     setOnceConnected, setSessionMetadata, sendGetSessionConfig, the     *)
(*     session-metadata handlers).                                         *)
(*                                                                         *)
(* The sources hold the transport in two wirings.  In                      *)
(* src/unnamed/part_001 the transport's onopen runs the handshake and its  *)
(* onmessage routes replies to requestResolutions (actions OnOpen and      *)
(* OnMessage, specification Spec).  In WalletLinkWebSocket.ts onopen       *)
(* notifies the owner and flushes the queue at once, and onmessage only    *)
(* forwards (actions OnOpenWS and OnMessageWS, specification SpecWS).      *)
(* connect, onclose, disconnect, sendData and clearWebSocket are the same  *)
(* text in both, and makeRequest is the same race in both.  FairSpec is    *)
(* the part_001 wiring with the request timeouts fair; SpecMeta feeds the  *)
(* engine the server's pushes (metadata batches, events, link status)      *)
(* whose decryptions settle in any order.                                  *)
(* SpecBatch is the metadata batches alone, with each batch recorded;      *)
(* FairRetrySpec is the reconnect loop with its delays fair; SpecFetch is  *)
(* checkUnseenEvents with the HTTP fetch and its answers; SpecSet is       *)
(* setSessionMetadata with the server's answers.                           *)
(* SpecHb is the part_001 transport under its heartbeat timers and the     *)
(* clock; SpecAuth is setSessionMetadata around the part_001 handshake;    *)
(* SpecOrder is Web3Response events whose decryptions settle in any order. *)
(*                                                                         *)
(* A handler is one atomic action: JavaScript runs a handler and the       *)
(* promise continuations it releases to completion before the next event.  *)
(* Operators take the program state as a record s and return the state     *)
(* after the call; Commit writes the record back to the variables.         *)
(***************************************************************************)
EXTENDS Integers, Sequences, FiniteSets, TLC

\* ---------------------------------------------------------------- bounds
\* Request ids are 1..MaxReqId: the callers stop allocating beyond it.
MaxReqId == 3
\* At most this many reconnect delays are pending at once.
MaxTimers == 2

\* At most this many decryptions are in flight at once.
MaxInflight == 2
\* A metadata batch holds at most this many keys.
MaxKeys == 2

Ids == 1..MaxReqId

\* Encrypted metadata values as the server sends them.  "bad" is one the cipher
\* rejects.
Cipher == {"c1", "bad"}

\* Encrypted event data: "c2" holds a message that is no WEB3_RESPONSE.
EventCipher == Cipher \cup {"c2"}

\* Encrypted data of two different WEB3_RESPONSE messages.
ResponseCipher == {"c1", "c3"}

\* Cipher.decrypt of a value it accepts.
Decrypt(c) == IF c = "c1" THEN "p1" ELSE IF c = "c3" THEN "p3" ELSE "p2"

\* JSON.parse of a decrypted event: "p1" and "p3" are messages of type WEB3_RESPONSE,
\* "p2" a message of another type.
ParsedType(p) == IF p \in {"p1", "p3"} THEN "WEB3_RESPONSE" ELSE "OTHER"

\* The keys of SessionConfig.metadata the engine looks at; "undef" is an absent key.
Keys == {"__destroyed", "EthereumAddress", "WalletUsername", "AppVersion", "ChainId",
         "JsonRpcUrl"}
Batches ==
  {b \in [Keys -> Cipher \cup {"undef", "0", "1"}] :
     /\ b["__destroyed"] \in {"undef", "0", "1"}
     /\ \A k \in Keys \ {"__destroyed"} : b[k] \in Cipher \cup {"undef"}
     /\ Cardinality({k \in Keys : b[k] # "undef"}) <= MaxKeys}

\* --------------------------------------------------------------- state
VARIABLES
  webSocket,        \* this.webSocket: "null", or the socket's readyState "connecting" / "open"
  wsListener,       \* the transport's this.listener is set
  pendingData,      \* the transport's pendingData, a sequence of message ids
  connCatch,        \* the connect() promise of the connecting socket carries reconnect's catch
  hbTimers,         \* number of setInterval heartbeat timers started
  stale,            \* Date.now() - this.lastHeartbeatResponse > HEARTBEAT_INTERVAL * 2
  destroyed,        \* the engine's destroyed flag
  listener,         \* the engine's this.listener is set
  connected,        \* the engine's _connected
  onceConnected,    \* the engine's onceConnected slot: 0 (undefined) or the id of the request it will make
  shouldFetch,      \* the engine's shouldFetchUnseenEventsOnConnect
  fetchDelays,      \* number of pending 250 ms delays of checkUnseenEvents()
  fetching,         \* number of http.fetchUnseenEvents() calls awaiting their answer
  reconnectTimers,  \* number of pending 5 s delays of reconnect()
  nextReqId,        \* this.nextReqId
  msgType,          \* the type of the message built with each id ("none": id not allocated yet)
  outcome,          \* per request id, the state of the promise makeRequest returned
  timer,            \* ids whose request timeout is armed
  table,            \* keys of requestResolutions
  callers,          \* per request id, the state of the promise setSessionMetadata returned
  inflight,         \* the decryptions awaited, in the order they were started
  \* observations of the environment and of the callers
  sockets,          \* physical connections created and not yet closed
  txCount,          \* per id, how many times the message was handed to WebSocket.send
  sendOrder,        \* ids in the order sendData was asked to queue them since the last flush
  delivered,        \* per request id, how many resolutions reached the caller of makeRequest
  timerReopen,      \* a reconnect delay that expired after destroy() called the transport's connect()
  cbAfterDestroy,   \* a listener callback was invoked after destroy()
  sent,             \* the message ids the latest handler handed to WebSocket.send, in order
  last              \* what the latest handler did, as far as a caller or the peer can see it

vars == <<webSocket, wsListener, pendingData, connCatch, hbTimers, stale, destroyed, listener,
          connected, onceConnected, shouldFetch, fetchDelays, fetching, reconnectTimers,
          nextReqId, msgType,
          outcome, timer, table, callers, inflight, sockets, txCount, sendOrder, delivered, timerReopen,
          cbAfterDestroy, sent, last>>

\* The program state as one record, as a handler finds it.  threw is the exception in
\* flight of the running call and notes counts the 'closed' notifications the running
\* handler gave the owner; both live only while the handler runs.
St ==
  [webSocket |-> webSocket, wsListener |-> wsListener, pendingData |-> pendingData,
   connCatch |-> connCatch, hbTimers |-> hbTimers, stale |-> stale, destroyed |-> destroyed,
   listener |-> listener, connected |-> connected, onceConnected |-> onceConnected,
   shouldFetch |-> shouldFetch, fetchDelays |-> fetchDelays, fetching |-> fetching,
   reconnectTimers |-> reconnectTimers,
   nextReqId |-> nextReqId, msgType |-> msgType, outcome |-> outcome, timer |-> timer,
   table |-> table, callers |-> callers, inflight |-> inflight, sockets |-> sockets, txCount |-> txCount, sendOrder |-> sendOrder,
   delivered |-> delivered, timerReopen |-> timerReopen,
   cbAfterDestroy |-> cbAfterDestroy, sent |-> <<>>, last |-> <<"none">>,
   threw |-> FALSE, notes |-> 0]

Assign(r) ==
  /\ webSocket' = r.webSocket
  /\ wsListener' = r.wsListener
  /\ pendingData' = r.pendingData
  /\ connCatch' = r.connCatch
  /\ hbTimers' = r.hbTimers
  /\ stale' = r.stale
  /\ destroyed' = r.destroyed
  /\ listener' = r.listener
  /\ connected' = r.connected
  /\ onceConnected' = r.onceConnected
  /\ shouldFetch' = r.shouldFetch
  /\ fetchDelays' = r.fetchDelays
  /\ fetching' = r.fetching
  /\ reconnectTimers' = r.reconnectTimers
  /\ nextReqId' = r.nextReqId
  /\ msgType' = r.msgType
  /\ outcome' = r.outcome
  /\ timer' = r.timer
  /\ table' = r.table
  /\ callers' = r.callers
  /\ inflight' = r.inflight
  /\ sockets' = r.sockets
  /\ txCount' = r.txCount
  /\ sendOrder' = r.sendOrder
  /\ delivered' = r.delivered
  /\ timerReopen' = r.timerReopen
  /\ cbAfterDestroy' = r.cbAfterDestroy
  /\ sent' = r.sent
  /\ last' = r.last

Init ==
  /\ webSocket = "null"
  /\ wsListener = TRUE
  /\ pendingData = <<>>
  /\ connCatch = FALSE
  /\ hbTimers = 0
  /\ stale = TRUE
  /\ destroyed = FALSE
  /\ listener = TRUE
  /\ connected = FALSE
  /\ onceConnected = 0
  /\ shouldFetch = FALSE
  /\ fetchDelays = 0
  /\ fetching = 0
  /\ reconnectTimers = 0
  /\ nextReqId = 1
  /\ msgType = [i \in Ids |-> "none"]
  /\ outcome = [i \in Ids |-> "none"]
  /\ timer = {}
  /\ table = {}
  /\ callers = [i \in Ids |-> "none"]
  /\ inflight = <<>>
  /\ sockets = 0
  /\ txCount = [i \in Ids |-> 0]
  /\ sendOrder = <<>>
  /\ delivered = [i \in Ids |-> 0]
  /\ timerReopen = FALSE
  /\ cbAfterDestroy = FALSE
  /\ sent = <<>>
  /\ last = <<"none">>

\* A handler runs to its end in one step; x is the state it leaves.
Commit(x) ==
  \E r \in {x} : Assign(r)

\* ------------------------------------------------------------ transport
\* clearWebSocket(): forget the socket and detach its four handlers.
clearWebSocket(s) ==
  IF s.webSocket = "null" THEN s ELSE [s EXCEPT !.webSocket = "null", !.connCatch = FALSE]

\* The engine's reconnect(): the async function starts its 5 s delay at once.
reconnect(s) ==
  [s EXCEPT !.reconnectTimers = @ + 1]

\* A faulty connect(): the guard on this.webSocket is missing.
connectUnguarded(s, byReconnect) ==
  [s EXCEPT !.webSocket = "connecting", !.sockets = @ + 1, !.connCatch = byReconnect,
            !.last = <<"connect", "started">>,
            !.timerReopen = @ \/ (byReconnect /\ s.destroyed)]

\* connect() of the transport.  byReconnect: the caller is reconnect(), which attaches
\* .catch(() => this.reconnect()) to the returned promise; the other callers attach
\* nothing.  With a socket present the promise is rejected before anything is created.
wsConnect(s, byReconnect) ==
  LET c == [s EXCEPT !.timerReopen = @ \/ (byReconnect /\ s.destroyed)]
  IN  IF c.webSocket # "null"
        THEN LET r == [c EXCEPT !.last = <<"connect", "rejected">>]
             IN  IF byReconnect THEN reconnect(r) ELSE r
        ELSE [c EXCEPT !.webSocket = "connecting", !.sockets = @ + 1,
                       !.connCatch = byReconnect, !.last = <<"connect", "started">>]

\* webSocket.send(data) on an open socket.
transmit(s, id) ==
  [s EXCEPT !.sent = Append(@, id), !.txCount[id] = @ + 1]

\* sendData(data) / sendMessage(message).  Without a socket the message is queued and
\* connect() is called.  With a socket it is handed to WebSocket.send, which throws
\* InvalidStateError while the socket is still CONNECTING.
sendData(s, id) ==
  IF s.webSocket = "null"
    THEN wsConnect([s EXCEPT !.pendingData = Append(@, id),
                             !.sendOrder = Append(@, id)], FALSE)
  ELSE IF s.webSocket = "connecting" THEN [s EXCEPT !.threw = TRUE]
  ELSE transmit(s, id)

\* ----------------------------------------------------------- correlator
\* The continuations of a settled makeRequest promise.  The callback of
\* setSessionMetadata returns on a reply that is not 'Fail' and throws on 'Fail';
\* callback().then(resolve) of setOnceConnected resolves the caller's promise when the
\* callback returns and has no handler for its throw or for makeRequest's rejection.
thenResolve(s, id, res) ==
  IF s.msgType[id] = "SetSessionConfig" /\ res = "ok"
    THEN [s EXCEPT !.callers[id] = "resolved"]
    ELSE s

\* Promise.race of makeRequest: the first of reply and timeout settles the promise the
\* caller holds; a later one finds it settled and changes nothing.
settle(s, id, res) ==
  IF s.outcome[id] = "pending"
    THEN thenResolve([s EXCEPT !.outcome[id] = res, !.delivered[id] = @ + 1], id, res)
    ELSE s

\* A faulty resolver: it resolves and deletes the entry but leaves the timeout armed.
resolveKeepTimer(s, id, res) ==
  IF id \in s.table
    THEN settle([s EXCEPT !.table = @ \ {id}], id, res)
    ELSE s

\* requestResolutions.get(m.id)?.(m): the closure makeRequest stored clears the
\* timeout, resolves with the reply and deletes its entry.
resolveRequest(s, id, res) ==
  IF id \in s.table
    THEN settle([s EXCEPT !.timer = @ \ {id}, !.table = @ \ {id}], id, res)
    ELSE s

\* The callback of window.setTimeout in makeRequest: reject with 'timed out'.  The
\* entry of requestResolutions is left where it is.
timeoutFired(s, id) ==
  settle([s EXCEPT !.timer = @ \ {id}], id, "timeout")

\* A faulty makeRequest(): the resolver is stored but no timeout is armed.
makeRequestNoTimer(s, id) ==
  LET t == sendData(s, id)
  IN  IF t.threw
        THEN [t EXCEPT !.threw = FALSE, !.outcome[id] = "senderr", !.delivered[id] = @ + 1]
        ELSE [t EXCEPT !.outcome[id] = "pending", !.table = @ \cup {id}]

\* makeRequest(message): send, then arm the timeout and store the resolver.  A throw
\* of the send rejects the async function's promise before either is set up.
makeRequest(s, id) ==
  LET t == sendData(s, id)
  IN  IF t.threw
        THEN [t EXCEPT !.threw = FALSE, !.outcome[id] = "senderr", !.delivered[id] = @ + 1]
        ELSE [t EXCEPT !.outcome[id] = "pending", !.timer = @ \cup {id},
                       !.table = @ \cup {id}]

\* this.nextReqId++ when a message of the given type is built.
allocId(s, type) ==
  [s EXCEPT !.nextReqId = @ + 1, !.msgType[s.nextReqId] = type]

\* Request ids not yet used.
IdsLeft(s) == MaxReqId + 1 - s.nextReqId

\* Messages the continuation of request id builds when the reply res settles it:
\* the two queries of a handshake whose authenticate succeeds.
IdsNeeded(s, id, res) ==
  IF s.msgType[id] = "HostSession" /\ s.outcome[id] = "pending" /\ id \in s.table /\ res = "ok"
    THEN 2 ELSE 0

\* ------------------------------------------------------------ handshake
\* sendIsLinked() and the transport's sendGetSessionConfig(): fire and forget.
sendIsLinked(s) ==
  sendData(allocId(s, "IsLinked"), s.nextReqId)

sendGetSessionConfigWS(s) ==
  sendData(allocId(s, "GetSessionConfig"), s.nextReqId)

\* updateLastHeartbeat(): lastHeartbeatResponse = Date.now().
updateLastHeartbeat(s) ==
  [s EXCEPT !.stale = FALSE]

\* sendHeartbeat(): updateLastHeartbeat, then setInterval starts one more periodic
\* timer.
sendHeartbeat(s) ==
  [updateLastHeartbeat(s) EXCEPT !.hbTimers = @ + 1]

\* pending.forEach(send) over a copy of the queue; a throw of send ends the loop.
RECURSIVE flushFrom(_, _, _)
flushFrom(s, pending, i) ==
  IF i > Len(pending) THEN s
  ELSE LET t == sendData(s, pending[i])
       IN  IF t.threw THEN t ELSE flushFrom(t, pending, i + 1)

\* A faulty flush: the copy of the queue is sent last message first.
flushReversed(s) ==
  IF Len(s.pendingData) > 0
    THEN LET n == Len(s.pendingData)
             t == flushFrom(s, [i \in 1..n |-> s.pendingData[n + 1 - i]], 1)
         IN  IF t.threw THEN t ELSE [t EXCEPT !.pendingData = <<>>, !.sendOrder = <<>>]
    ELSE s

\* sendPendingMessages(), and the same lines inline in onopen of
\* WalletLinkWebSocket.ts: send a copy of the queue in order, then empty the queue.
\* When a send throws the assignment is not reached.
sendPendingMessages(s) ==
  IF Len(s.pendingData) > 0
    THEN LET t == flushFrom(s, s.pendingData, 1)
         IN  IF t.threw THEN t ELSE [t EXCEPT !.pendingData = <<>>, !.sendOrder = <<>>]
    ELSE s

\* How the fire-and-forget send of message id ended, from the state a it left.
SendTag(a, id) ==
  IF a.threw THEN "threw" ELSE IF a.txCount[id] > 0 THEN "sent" ELSE "queued"

\* A faulty handshake: the two queries are sent whatever authenticate returned (as
\* long as request ids are left).
afterAuthenticateAlways(s, id) ==
  LET go == IdsLeft(s) >= 2
      a == IF go THEN sendIsLinked(s) ELSE s
      b == IF go /\ ~a.threw THEN sendGetSessionConfigWS(a) ELSE a
      e == sendPendingMessages(sendHeartbeat([b EXCEPT !.threw = FALSE]))
  IN  [e EXCEPT !.threw = FALSE,
                !.last = <<"handshake", s.outcome[id],
                           IF go THEN SendTag(a, s.nextReqId) ELSE "skipped",
                           IF go /\ ~a.threw THEN SendTag(b, a.nextReqId) ELSE "skipped">>]

\* The rest of onopen once authenticate() has settled.  authenticateUponConnection
\* goes on to sendIsLinked and sendGetSessionConfig only if authenticate did not throw
\* (a Fail reply and a timeout both throw); onopen swallows the throw, then starts the
\* heartbeat and flushes the queue.
afterAuthenticate(s, id) ==
  LET ok == s.outcome[id] = "ok"
      a == IF ok THEN sendIsLinked(s) ELSE s
      b == IF ok /\ ~a.threw THEN sendGetSessionConfigWS(a) ELSE a
      e == sendPendingMessages(sendHeartbeat([b EXCEPT !.threw = FALSE]))
  IN  [e EXCEPT !.threw = FALSE,
                !.last = <<"handshake", s.outcome[id],
                           IF ok THEN SendTag(a, s.nextReqId) ELSE "skipped",
                           IF ok /\ ~a.threw THEN SendTag(b, a.nextReqId) ELSE "skipped">>]

\* The continuation awaiting request id, run once the request has just settled.
continue(before, s, id) ==
  IF before.outcome[id] = "pending" /\ s.outcome[id] # "pending"
       /\ s.msgType[id] = "HostSession"
    THEN afterAuthenticate(s, id)
    ELSE s

\* --------------------------------------------------------------- engine
\* this.listener?.callback(...): invoked only while the listener is held.
notifyListener(s, cb) ==
  IF s.listener
    THEN [s EXCEPT !.cbAfterDestroy = @ \/ s.destroyed, !.last = <<"callback">> \o cb]
    ELSE [s EXCEPT !.last = <<"skipped">> \o cb]

\* A faulty fetchUnseenEventsAPI: the flag is left as it was.
fetchUnseenEventsKeepFlag(s) ==
  [s EXCEPT !.fetching = @ + 1]

\* fetchUnseenEventsAPI() up to its await: clears the flag and starts the HTTP fetch.
fetchUnseenEventsAPI(s) ==
  [s EXCEPT !.shouldFetch = FALSE, !.fetching = @ + 1]

\* checkUnseenEvents(): not connected, only the flag is set; connected, the 250 ms
\* delay is started, after which the fetch is made.
checkUnseenEvents(s) ==
  IF ~s.connected THEN [s EXCEPT !.shouldFetch = TRUE, !.last = <<"checkUnseenEvents">>]
  ELSE [s EXCEPT !.fetchDelays = @ + 1, !.last = <<"checkUnseenEvents">>]

\* The closure setOnceConnected stored: callback().then(resolve), then the slot is
\* emptied.  The callback of setSessionMetadata makes the request.
runOnceConnected(s) ==
  [makeRequest(s, s.onceConnected) EXCEPT !.onceConnected = 0]

\* set connected(c): store, run the slot on true, tell the listener.
setConnected(s, c) ==
  LET a == [s EXCEPT !.connected = c]
      b == IF c /\ a.onceConnected # 0 THEN runOnceConnected(a) ELSE a
  IN  notifyListener(b, <<"connectedUpdated", c>>)

\* websocketConnected(): the deferred fetch, then connected = true if it was not.
websocketConnected(s) ==
  LET a == IF s.shouldFetch THEN fetchUnseenEventsAPI(s) ELSE s
  IN  IF a.connected # TRUE THEN setConnected(a, TRUE) ELSE a

\* A faulty DISCONNECTED handler: no reconnect is scheduled.
websocketDisconnectedNoRetry(s) ==
  s

\* websocketConnectionStateUpdated(DISCONNECTED) / websocketDisconnected().
websocketDisconnected(s) ==
  IF s.destroyed THEN s ELSE reconnect(s)

\* A faulty setOnceConnected(): a continuation already in the slot is kept.
setOnceConnectedKeepFirst(s, id) ==
  LET a == [s EXCEPT !.callers[id] = "pending"]
  IN  IF a.connected THEN makeRequest(a, id)
      ELSE IF a.onceConnected # 0 THEN a
      ELSE [a EXCEPT !.onceConnected = id]

\* setOnceConnected(callback): a new promise, settled by callback().then(resolve).
setOnceConnected(s, id) ==
  LET a == [s EXCEPT !.callers[id] = "pending"]
  IN  IF a.connected THEN makeRequest(a, id) ELSE [a EXCEPT !.onceConnected = id]

\* A faulty reconnect(): destroyed is not looked at again after the delay.
reconnectNoRecheck(s) ==
  wsConnect(s, TRUE)

\* reconnect() after its delay: if (!this.destroyed) this.ws.connect().catch(...).
reconnectAfterDelay(s) ==
  IF ~s.destroyed THEN wsConnect(s, TRUE) ELSE [s EXCEPT !.last = <<"reconnect", "stale">>]

\* this.listener?.websocketConnectionStateUpdated(DISCONNECTED) of the transport.
notifyClosed(s) ==
  IF s.wsListener
    THEN websocketDisconnected([s EXCEPT !.notes = @ + 1])
    ELSE s

\* disconnect() of the transport: clear the socket, tell the owner, drop the
\* listener, close the socket.
disconnect(s) ==
  IF s.webSocket = "null" THEN s
  ELSE LET b == notifyClosed(clearWebSocket(s))
       IN  [b EXCEPT !.wsListener = FALSE, !.sockets = @ - 1, !.last = <<"close", b.notes>>]

\* A faulty destroy(): the listener is kept.
destroyKeepListener(s) ==
  disconnect([s EXCEPT !.destroyed = TRUE])

\* destroy() of the engine.
destroy(s) ==
  [disconnect([s EXCEPT !.destroyed = TRUE]) EXCEPT !.listener = FALSE]

\* onclose of the current socket: clearWebSocket, reject, tell the owner.  The reject
\* matters only while connect()'s promise is unsettled, and only reconnect() has
\* attached a handler to it; that handler runs after the owner was told.
onclose(s) ==
  LET retry == s.webSocket = "connecting" /\ s.connCatch
      b == notifyClosed([clearWebSocket(s) EXCEPT !.sockets = @ - 1])
      c == [b EXCEPT !.last = <<"close", b.notes>>]
  IN  IF retry THEN reconnect(c) ELSE c

\* A faulty heartbeat(): the pulse goes through sendData, which queues it and
\* connects when there is no socket.
heartbeatViaSendData(s, overdue) ==
  IF overdue THEN disconnect(s)
  ELSE IF s.webSocket = "open" THEN [s EXCEPT !.sent = Append(@, 0)]
  ELSE IF s.webSocket = "null"
    THEN wsConnect([s EXCEPT !.pendingData = Append(@, 0)], FALSE)
  ELSE s

\* A faulty heartbeat(): the pulse is sent before the age is looked at.
heartbeatPulseFirst(s, overdue) ==
  LET a == IF s.webSocket = "open" THEN [s EXCEPT !.sent = Append(@, 0)] ELSE s
  IN  IF overdue THEN disconnect(a) ELSE a

\* heartbeat() of part_001, run by each tick of a timer sendHeartbeat started.
\* overdue is Date.now() - this.lastHeartbeatResponse > HEARTBEAT_INTERVAL * 2: then
\* the transport disconnects itself; else the pulse 'h' (frame 0) goes to the socket if
\* there is one, and a throw of send is swallowed.
heartbeat(s, overdue) ==
  IF overdue THEN disconnect(s)
  ELSE IF s.webSocket = "open" THEN [s EXCEPT !.sent = Append(@, 0)]
  ELSE s

\* ------------------------------------------------- session metadata, events
\* An async handler has called cipher.decrypt and awaits it.
startDecrypt(s, item) ==
  [s EXCEPT !.inflight = Append(@, item)]

\* A faulty handleDestroyed: any value of the key asks for the reset.
handleDestroyedAnyValue(s, v) ==
  notifyListener(s, <<"resetAndReload">>)

\* handleDestroyed: only the value '1' asks the listener to reset and reload.
handleDestroyed(s, v) ==
  IF v # "1" THEN s ELSE notifyListener(s, <<"resetAndReload">>)

\* handleAccountUpdated, handleWalletUsernameUpdated, handleAppVersionUpdated (both
\* through handleMetadataUpdated): decrypt the value, then tell the listener.
handleAccountUpdated(s, v) ==
  startDecrypt(s, [kind |-> "account", c |-> v, c2 |-> "undef", p |-> "undef"])

handleWalletUsernameUpdated(s, v) ==
  startDecrypt(s, [kind |-> "username", c |-> v, c2 |-> "undef", p |-> "undef"])

\* A faulty handleAppVersionUpdated: the value is reported under the username key.
handleAppVersionUpdatedAsUsername(s, v) ==
  startDecrypt(s, [kind |-> "username", c |-> v, c2 |-> "undef", p |-> "undef"])

handleAppVersionUpdated(s, v) ==
  startDecrypt(s, [kind |-> "appversion", c |-> v, c2 |-> "undef", p |-> "undef"])

\* A faulty handleChainUpdated: a pair that is already being decrypted is dropped.
handleChainUpdatedDistinct(s, v, url) ==
  IF \E i \in 1..Len(s.inflight) :
       s.inflight[i].kind = "chain" /\ s.inflight[i].c = v /\ s.inflight[i].c2 = url
    THEN s
    ELSE [s EXCEPT !.inflight =
            Append(@, [kind |-> "chain", c |-> v, c2 |-> url, p |-> "undef"])]

\* handleChainUpdated: decrypt the chain id, then the url, then tell the listener.
handleChainUpdated(s, v, url) ==
  startDecrypt(s, [kind |-> "chain", c |-> v, c2 |-> url, p |-> "undef"])

\* A faulty handler of key ChainId: it does not look for JsonRpcUrl.
handleChainIdAlways(s, b) ==
  handleChainUpdated(s, b["ChainId"], b["JsonRpcUrl"])

\* The handler of key ChainId: metadata.JsonRpcUrl && handleChainUpdated(...).
handleChainId(s, b) ==
  IF b["JsonRpcUrl"] # "undef" THEN handleChainUpdated(s, b["ChainId"], b["JsonRpcUrl"]) ELSE s

\* Decryptions a batch starts, one per key it holds among the four decrypted ones.
Starts(b) ==
  Cardinality({k \in {"EthereumAddress", "WalletUsername", "AppVersion"} : b[k] # "undef"})
    + (IF b["ChainId"] # "undef" /\ b["JsonRpcUrl"] # "undef" THEN 1 ELSE 0)

\* handleSessionMetadataUpdated(metadata): the handlers of __destroyed,
\* EthereumAddress, WalletUsername, AppVersion and ChainId, in this order, each
\* called if its key is in the batch.
handleSessionMetadataUpdated(s, b) ==
  LET h1 == IF b["__destroyed"] # "undef" THEN handleDestroyed(s, b["__destroyed"]) ELSE s
      h2 == IF b["EthereumAddress"] # "undef" THEN handleAccountUpdated(h1, b["EthereumAddress"]) ELSE h1
      h3 == IF b["WalletUsername"] # "undef" THEN handleWalletUsernameUpdated(h2, b["WalletUsername"]) ELSE h2
      h4 == IF b["AppVersion"] # "undef" THEN handleAppVersionUpdated(h3, b["AppVersion"]) ELSE h3
  IN  IF b["ChainId"] # "undef" THEN handleChainId(h4, b) ELSE h4

\* handleIncomingEvent(m) up to its await: only Web3Response events are decrypted.
handleIncomingEvent(s, event, data) ==
  IF event # "Web3Response" THEN s
  ELSE startDecrypt(s, [kind |-> "web3", c |-> data, c2 |-> "undef", p |-> "undef"])

\* The rest of fetchUnseenEventsAPI(): each returned event goes to handleIncomingEvent.
RECURSIVE fetchedEvents(_, _)
fetchedEvents(s, es) ==
  IF es = <<>> THEN s
  ELSE fetchedEvents(handleIncomingEvent(s, es[1][1], es[1][2]), Tail(es))

\* websocketLinkedUpdated(linked): tell the listener.
websocketLinkedUpdated(s, linked) ==
  notifyListener(s, <<"linkedUpdated", linked>>)

\* The in-flight decryptions without the i-th.
Without(q, i) ==
  [j \in 1..(Len(q) - 1) |-> IF j < i THEN q[j] ELSE q[j + 1]]

\* A faulty continuation: a rejected decrypt is not caught where it is awaited and
\* takes the other awaited decryptions down with it.
decryptDoneAbortAll(s, i) ==
  LET it == s.inflight[i]
      r == [s EXCEPT !.inflight = Without(@, i)]
      x == [s EXCEPT !.inflight = <<>>]
  IN  IF it.kind = "chain" /\ it.p = "undef"
        THEN IF it.c = "bad" THEN [x EXCEPT !.last = <<"decryptFailed", "chain">>]
             ELSE [s EXCEPT !.inflight[i].p = Decrypt(it.c)]
      ELSE IF (IF it.kind = "chain" THEN it.c2 ELSE it.c) = "bad"
        THEN [x EXCEPT !.last = <<"decryptFailed", it.kind>>]
      ELSE IF it.kind = "chain"
        THEN notifyListener(r, <<"chainUpdated", it.p, Decrypt(it.c2)>>)
      ELSE IF it.kind = "account"
        THEN notifyListener(r, <<"accountUpdated", Decrypt(it.c)>>)
      ELSE IF it.kind = "username"
        THEN notifyListener(r, <<"metadataUpdated", "walletUsername", Decrypt(it.c)>>)
      ELSE IF it.kind = "appversion"
        THEN notifyListener(r, <<"metadataUpdated", "AppVersion", Decrypt(it.c)>>)
      ELSE IF ParsedType(Decrypt(it.c)) # "WEB3_RESPONSE" THEN r
      ELSE notifyListener(r, <<"handleWeb3ResponseMessage", Decrypt(it.c)>>)

\* The continuation of the i-th awaited decryption.  A rejected decrypt lands in the
\* handler's catch, which logs.  The chain handler awaits the chain id, then the url.
decryptDone(s, i) ==
  LET it == s.inflight[i]
      r == [s EXCEPT !.inflight = Without(@, i)]
  IN  IF it.kind = "chain" /\ it.p = "undef"
        THEN IF it.c = "bad" THEN [r EXCEPT !.last = <<"decryptFailed", "chain">>]
             ELSE [s EXCEPT !.inflight[i].p = Decrypt(it.c)]
      ELSE IF (IF it.kind = "chain" THEN it.c2 ELSE it.c) = "bad"
        THEN [r EXCEPT !.last = <<"decryptFailed", it.kind>>]
      ELSE IF it.kind = "chain"
        THEN notifyListener(r, <<"chainUpdated", it.p, Decrypt(it.c2)>>)
      ELSE IF it.kind = "account"
        THEN notifyListener(r, <<"accountUpdated", Decrypt(it.c)>>)
      ELSE IF it.kind = "username"
        THEN notifyListener(r, <<"metadataUpdated", "walletUsername", Decrypt(it.c)>>)
      ELSE IF it.kind = "appversion"
        THEN notifyListener(r, <<"metadataUpdated", "AppVersion", Decrypt(it.c)>>)
      ELSE IF ParsedType(Decrypt(it.c)) # "WEB3_RESPONSE" THEN r
      ELSE notifyListener(r, <<"handleWeb3ResponseMessage", Decrypt(it.c)>>)

\* What a public operation called on a destroyed engine did.
OpTag(s, r) ==
  IF r.webSocket # s.webSocket THEN "opened"
  ELSE IF r.txCount # s.txCount THEN "sent"
  ELSE IF r.pendingData # s.pendingData THEN "queued"
  ELSE IF r.onceConnected # s.onceConnected THEN "deferred"
  ELSE "rejected"

Observe(s, r) ==
  IF s.destroyed THEN [r EXCEPT !.last = <<"afterDestroy", OpTag(s, r)>>] ELSE r

Bounded(r) == r.reconnectTimers <= MaxTimers

\* -------------------------------------------------------------- actions
\* connect() of the engine: throws when destroyed, else connect() of the transport.
DoConnect ==
  \E s \in {St} :
    Commit(IF s.destroyed THEN [s EXCEPT !.last = <<"afterDestroy", "threw">>]
                          ELSE wsConnect(s, FALSE))

\* destroy() of the engine.
DoDestroy ==
  \E s \in {St} : Commit(destroy(s))

\* setSessionMetadata(key, value): build the message, then setOnceConnected.
DoSetSessionMetadata ==
  /\ IdsLeft(St) >= 1
  /\ LET s == St
         r == setOnceConnected(allocId(s, "SetSessionConfig"), s.nextReqId)
     IN  Commit(Observe(s, r))

\* sendGetSessionConfig() of the engine: build the message, makeRequest.
DoSendGetSessionConfig ==
  /\ IdsLeft(St) >= 1
  /\ LET s == St
         r == makeRequest(allocId(s, "GetSessionConfig"), s.nextReqId)
     IN  Commit(Observe(s, r))

\* onopen of part_001: resolve, tell the owner, authenticate and await its reply.
OnOpen ==
  /\ webSocket = "connecting"
  /\ IdsLeft(St) >= 1
  /\ LET s == [St EXCEPT !.webSocket = "open", !.connCatch = FALSE]
         a == IF s.wsListener THEN websocketConnected(s) ELSE s
         b == makeRequest(allocId(a, "HostSession"), a.nextReqId)
     IN  Commit([b EXCEPT !.last = <<"open", 0>>])

\* onopen of WalletLinkWebSocket.ts: resolve, tell the owner, flush the queue.
OnOpenWS ==
  /\ webSocket = "connecting"
  /\ LET s == [St EXCEPT !.webSocket = "open", !.connCatch = FALSE]
         a == IF s.wsListener THEN websocketConnected(s) ELSE s
         b == sendPendingMessages(a)
     IN  Commit([b EXCEPT !.threw = FALSE, !.last = <<"open", Len(a.pendingData)>>])

\* onclose: the peer or an error closed the socket, open or still connecting.
OnClose ==
  /\ webSocket # "null"
  /\ LET r == onclose(St)
     IN  Bounded(r) /\ Commit(r)

\* onmessage of part_001 with an OK or Fail reply carrying id: resolve the request,
\* then forward to the owner, who acts on Event messages only.
OnMessage ==
  /\ webSocket = "open"
  /\ \E id \in Ids, res \in {"ok", "fail"} :
       /\ msgType[id] # "none"
       /\ IdsLeft(St) >= IdsNeeded(St, id, res)
       /\ LET s == St
              r == resolveRequest(s, id, res)
          IN  Commit(continue(s, r, id))

\* onmessage of WalletLinkWebSocket.ts with a reply: forwarded to the owner, whose
\* websocketServerMessageReceived acts on Event messages only (the resolution of
\* requests is commented out there).
OnMessageWS ==
  /\ webSocket = "open"
  /\ \E id \in Ids :
       /\ msgType[id] # "none"
       /\ Commit(St)

\* onmessage of WalletLinkWebSocket.ts with the server's answer to a SetSessionConfig
\* message that was sent: forwarded to the owner as any other reply.
OnSetSessionConfigReply ==
  /\ webSocket = "open"
  /\ \E id \in Ids, res \in {"ok", "fail"} :
       /\ msgType[id] = "SetSessionConfig"
       /\ txCount[id] > 0
       /\ Commit([St EXCEPT !.last = <<"reply", id, res>>])

\* The timeout of request id expires.
TimeoutFireId(id) ==
  /\ id \in timer
  /\ LET s == St
         r == timeoutFired(s, id)
     IN  Commit(continue(s, r, id))

TimeoutFire ==
  \E id \in Ids : TimeoutFireId(id)

\* A tick of a heartbeat timer.
HeartbeatTick ==
  /\ hbTimers > 0
  /\ LET r == heartbeat(St, stale)
     IN  Bounded(r) /\ Commit([r EXCEPT !.last = <<"tick", stale>>])

\* Time passes without lastHeartbeatResponse being set: more than twice the
\* heartbeat interval lies between it and now.
TimePasses ==
  /\ ~stale
  /\ Commit([St EXCEPT !.stale = TRUE, !.last = <<"time">>])

\* onmessage of part_001 with the peer's pulse 'h': a Heartbeat message is forwarded
\* to the owner, whose websocketServerMessageReceived acts on Event messages only.
HeartbeatReceived ==
  /\ webSocket = "open"
  /\ Commit([St EXCEPT !.last = <<"pulse">>])

\* A 5 s delay of reconnect() expires.
ReconnectFire ==
  /\ reconnectTimers > 0
  /\ LET r == reconnectAfterDelay([St EXCEPT !.reconnectTimers = @ - 1])
     IN  Bounded(r) /\ Commit(r)

\* The engine over the transport of part_001: handshake on open, replies routed to
\* the correlator.
Next ==
  \/ DoConnect
  \/ DoSendGetSessionConfig
  \/ OnOpen
  \/ OnClose
  \/ OnMessage
  \/ TimeoutFire
  \/ ReconnectFire

Spec == Init /\ [][Next]_vars

\* The transport of part_001 under its heartbeat timers, with the clock, the peer's
\* pulses and the engine's reconnects.
NextHb ==
  \/ DoConnect
  \/ OnOpen
  \/ OnMessage
  \/ TimeoutFire
  \/ OnClose
  \/ ReconnectFire
  \/ TimePasses
  \/ HeartbeatTick
  \/ HeartbeatReceived

SpecHb == Init /\ [][NextHb]_vars

\* setSessionMetadata calls around the open of the transport of part_001 and its
\* handshake.
NextAuth ==
  \/ DoConnect
  \/ DoSetSessionMetadata
  \/ OnOpen
  \/ OnMessage
  \/ TimeoutFire
  \/ OnClose

SpecAuth == Init /\ [][NextAuth]_vars

\* Requests against replies, timeouts, closes and reconnects, the transport being
\* opened by the sends and the reconnects, with the browser's timers fair: while a
\* request timeout is armed, some armed timeout expires.
NextReq ==
  \/ DoSendGetSessionConfig
  \/ OnOpen
  \/ OnClose
  \/ OnMessage
  \/ TimeoutFire
  \/ ReconnectFire

FairSpec == Init /\ [][NextReq]_vars /\ WF_vars(TimeoutFire)

\* The engine over the transport of WalletLinkWebSocket.ts: the queue is flushed on
\* open, replies are only forwarded.
NextWS ==
  \/ DoConnect
  \/ DoDestroy
  \/ DoSetSessionMetadata
  \/ DoSendGetSessionConfig
  \/ OnOpenWS
  \/ OnClose
  \/ OnMessageWS
  \/ TimeoutFire
  \/ ReconnectFire

SpecWS == Init /\ [][NextWS]_vars

\* websocketSessionMetadataUpdated(metadata): the server pushed a metadata batch.
MetadataUpdated ==
  \E b \in Batches :
    /\ Len(inflight) + Starts(b) <= MaxInflight
    /\ Commit(handleSessionMetadataUpdated(St, b))

\* The same push, watched by an observer who keeps the batch and whether
\* resetAndReload was called ("callback"), was skipped for want of a listener
\* ("skipped") or was not due ("none").
MetadataBatch ==
  \E b \in Batches :
    /\ Len(inflight) + Starts(b) <= MaxInflight
    /\ \E r \in {handleSessionMetadataUpdated(St, b)} :
         Commit([r EXCEPT !.last = <<"batch", b, r.last[1]>>])

\* websocketServerMessageReceived(m) with an Event message.
EventReceived ==
  \E event \in {"Web3Response", "Other"}, data \in EventCipher :
    /\ Len(inflight) + 1 <= MaxInflight
    /\ Commit(handleIncomingEvent(St, event, data))

\* websocketLinkedUpdated(linked).
LinkedUpdated ==
  \E linked \in BOOLEAN : Commit(websocketLinkedUpdated(St, linked))

\* An awaited cipher.decrypt settles; they settle in any order.
DecryptDone ==
  \E i \in 1..Len(inflight) : Commit(decryptDone(St, i))

\* websocketServerMessageReceived(m) with a Web3Response event whose data decrypts
\* to a WEB3_RESPONSE message.
ResponseReceived ==
  \E data \in ResponseCipher :
    /\ Len(inflight) + 1 <= MaxInflight
    /\ Commit([handleIncomingEvent(St, "Web3Response", data) EXCEPT !.last = <<"event", data>>])

\* Web3Response events pushed over an open transport, their decryptions settling in
\* any order.
NextOrder ==
  \/ DoConnect
  \/ OnOpenWS
  \/ OnClose
  \/ ReconnectFire
  \/ DoDestroy
  \/ ResponseReceived
  \/ DecryptDone

SpecOrder == Init /\ [][NextOrder]_vars

\* checkUnseenEvents().
DoCheckUnseenEvents ==
  \E s \in {St} :
    /\ s.connected => s.fetchDelays + s.fetching < MaxTimers
    /\ Commit(checkUnseenEvents(s))

\* The 250 ms delay of checkUnseenEvents() expires: the fetch is made.
FetchDelayFire ==
  /\ fetchDelays > 0
  /\ Commit([fetchUnseenEventsAPI([St EXCEPT !.fetchDelays = @ - 1])
               EXCEPT !.last = <<"fetchDelay">>])

\* The answers http.fetchUnseenEvents() can give: lists of event messages.
FetchedEvent == ({"Web3Response"} \X Cipher) \cup {<<"Other", "c1">>}

Fetched ==
  UNION {[1..n -> FetchedEvent] : n \in 0..MaxInflight}

\* The number of decryptions the events of a list start.
Web3Count(es) == Cardinality({i \in 1..Len(es) : es[i][1] = "Web3Response"})

\* http.fetchUnseenEvents() answers: the events are handled one after the other.
FetchReturned ==
  \E es \in Fetched :
    /\ fetching > 0
    /\ Len(inflight) + Web3Count(es) <= MaxInflight
    /\ Commit([fetchedEvents([St EXCEPT !.fetching = @ - 1], es)
                 EXCEPT !.last = <<"fetched", es>>])

\* http.fetchUnseenEvents() rejects: no event is handled.
FetchRejected ==
  /\ fetching > 0
  /\ Commit([St EXCEPT !.fetching = @ - 1, !.last = <<"fetchRejected">>])

\* setSessionMetadata calls and the server's answers to them, over the transport of
\* WalletLinkWebSocket.ts.
NextSet ==
  \/ DoConnect
  \/ OnOpenWS
  \/ OnClose
  \/ DoSetSessionMetadata
  \/ OnSetSessionConfigReply
  \/ TimeoutFire

SpecSet == Init /\ [][NextSet]_vars

\* The engine asked to check for unseen events, over the transport of
\* WalletLinkWebSocket.ts that opens, closes and is reopened.
NextFetch ==
  \/ DoConnect
  \/ DoDestroy
  \/ OnOpenWS
  \/ OnClose
  \/ ReconnectFire
  \/ DoCheckUnseenEvents
  \/ FetchDelayFire
  \/ FetchReturned
  \/ FetchRejected
  \/ DecryptDone

SpecFetch == Init /\ [][NextFetch]_vars

\* The engine fed by the server's pushes, over the transport of
\* WalletLinkWebSocket.ts, with no request of its own under way.
NextMeta ==
  \/ MetadataUpdated
  \/ EventReceived
  \/ LinkedUpdated
  \/ DecryptDone
  \/ DoConnect
  \/ DoDestroy
  \/ OnOpenWS

SpecMeta == Init /\ [][NextMeta]_vars

\* The session-metadata synchronizer alone: batches, the decryptions they start,
\* destroy().
NextBatch ==
  \/ MetadataBatch
  \/ DecryptDone
  \/ DoDestroy

SpecBatch == Init /\ [][NextBatch]_vars

\* The engine's reconnect loop over the transport of WalletLinkWebSocket.ts, with the
\* browser's timers fair: a pending 5 s delay of reconnect() expires.
NextRetry ==
  \/ DoConnect
  \/ DoDestroy
  \/ DoSendGetSessionConfig
  \/ TimeoutFire
  \/ OnOpenWS
  \/ OnClose
  \/ ReconnectFire

FairRetrySpec == Init /\ [][NextRetry]_vars /\ WF_vars(ReconnectFire)

\* ---------------------------------------------------------------- claims
Settled == {"ok", "fail", "timeout"}

\* C1: a request made by makeRequest gets at most one resolution and the first one
\* wins: a request that timed out stays timed out when its reply comes later (the
\* caller is not called again), and a request resolved by its reply has its timeout
\* cancelled, so the timer cannot fail it afterwards.
C1_AtMostOneResolution ==
  \A id \in Ids :
    /\ delivered[id] <= 1
    /\ outcome[id] \in {"ok", "fail"} => id \notin timer
    /\ outcome[id] \in Settled => delivered[id] = 1

\* C1 witness: a request timed out and its reply arrived afterwards (only the reply
\* removes the entry of requestResolutions); the caller was called once.
C1_LateReplyDropped ==
  \E id \in Ids : outcome[id] = "timeout" /\ id \notin table /\ delivered[id] = 1

\* C2: every request that makeRequest has registered is eventually resolved, by a
\* success reply, a failure reply or its timeout, and by then the caller has been
\* called exactly once, whatever replies, closes, reconnects and disconnects happen
\* meanwhile.
C2_EventuallyResolved ==
  \A id \in Ids :
    []<>(/\ outcome[id] # "pending"
         /\ outcome[id] # "none" => delivered[id] = 1)

\* C2 witness: a request ended by its timeout while the transport was closed.
C2_ResolvedWhileClosed ==
  \E id \in Ids : outcome[id] = "timeout" /\ webSocket = "null" /\ txCount[id] = 1

\* C5 as claimed: the owner gets exactly one 'closed' notification for every physical
\* close, by onclose or by disconnect().
C5_ExactlyOneClosedNotification ==
  last[1] = "close" => last[2] = 1

\* C7: a reconnect delay that expires after destroy() never calls the transport's
\* connect().
C7_NoReopenAfterDestroy ==
  ~timerReopen

\* C7 witness: a reconnect delay expired on a destroyed engine and left the transport
\* without a socket.
C7_StaleTimerFired ==
  last = <<"reconnect", "stale">> /\ destroyed /\ webSocket = "null"

\* C8 as claimed: after destroy() every public operation fails at once: it sends
\* nothing, queues nothing, defers nothing and does not open the transport.
C8_DestroyedIsTerminal ==
  last[1] = "afterDestroy" => last[2] = "threw"

C3_QueuedSentExactlyOnce ==
  /\ [](\A id \in Ids : txCount[id] <= 1)
  /\ [][\A i \in 1..Len(pendingData) :
          (\A j \in 1..Len(pendingData') : pendingData'[j] # pendingData[i])
            => txCount'[pendingData[i]] = 1]_vars

\* C4: when the transport opens, the messages queued before are sent in the order in
\* which they were passed to send, and the queue is empty afterwards.
C4_FlushIsFifo ==
  [][webSocket = "connecting" /\ webSocket' = "open" =>
       /\ pendingData' = <<>>
       /\ Len(sent') >= Len(sendOrder)
       /\ SubSeq(sent', Len(sent') - Len(sendOrder) + 1, Len(sent')) = sendOrder]_vars

\* C4 witness: an open has flushed two queued messages.
C4_FlushedTwo ==
  /\ last = <<"open", 2>>
  /\ pendingData = <<>>
  /\ Len(sent) >= 2

\* C6: connect() of the transport with a socket present, open or still connecting,
\* is rejected and creates nothing: the transport never holds two physical
\* connections, and holds one exactly when this.webSocket is set.
C6_AtMostOneConnection ==
  /\ sockets <= 1
  /\ sockets = 1 <=> webSocket # "null"
  /\ last = <<"connect", "rejected">> => sockets = 1

\* C6 witness: a connect() has just been rejected because a socket was present.
C6_ConnectRejected ==
  last = <<"connect", "rejected">> /\ webSocket # "null"

\* C9: once destroy() has run no callback of the listener is invoked: not for a
\* decryption that was in flight when destroy() ran, not for a batch or event that
\* comes later, not for the close destroy() causes.
C9_NoCallbackAfterDestroy ==
  /\ ~cbAfterDestroy
  /\ last[1] = "callback" => ~destroyed

\* C9 witness: a decryption that outlived destroy() has settled and its callback was
\* skipped.
C9_InflightSkipped ==
  /\ destroyed
  /\ last[1] = "skipped"
  /\ last[2] \in {"accountUpdated", "chainUpdated", "handleWeb3ResponseMessage"}

\* C11: every close the owner is told of schedules a reconnect delay unless the
\* engine is destroyed, a failed attempt schedules one again, and while the engine is
\* not destroyed and the transport has no socket a pending delay leads to another
\* connect(): the attempts never stop.
C11_ReconnectsForever ==
  /\ [](last[1] = "close" /\ last[2] >= 1 /\ ~destroyed => reconnectTimers > 0)
  /\ (webSocket = "null" /\ reconnectTimers > 0 /\ ~destroyed)
       ~> (webSocket # "null" \/ destroyed)

\* C11 witness: an attempt made by reconnect() failed and reconnect() is connecting
\* again.
C11_SecondAttempt ==
  /\ webSocket = "connecting"
  /\ connCatch
  /\ reconnectTimers >= 1
  /\ ~destroyed

\* Number of chain updates awaiting a decryption.
ChainItems(q) == Cardinality({i \in 1..Len(q) : q[i].kind = "chain"})

\* C12: a chain update is started only by a batch that holds both ChainId and
\* JsonRpcUrl, and it takes both values from that batch; a chainUpdated callback
\* comes only from such an update, once its two decryptions are done.  A batch with
\* one of the two keys starts nothing and leaves nothing behind for a later batch.
C12_ChainNeedsBothKeys ==
  [][/\ ChainItems(inflight') > ChainItems(inflight) =>
          /\ last'[1] = "batch"
          /\ last'[2]["ChainId"] # "undef"
          /\ last'[2]["JsonRpcUrl"] # "undef"
          /\ inflight'[Len(inflight')] =
               [kind |-> "chain", c |-> last'[2]["ChainId"],
                c2 |-> last'[2]["JsonRpcUrl"], p |-> "undef"]
     /\ (last'[1] = "callback" /\ last'[2] = "chainUpdated") =>
          \E i \in 1..Len(inflight) :
            /\ inflight[i].kind = "chain"
            /\ inflight[i].p # "undef"
            /\ inflight' = Without(inflight, i)
            /\ last' = <<"callback", "chainUpdated", inflight[i].p, Decrypt(inflight[i].c2)>>
     /\ (last'[1] = "batch"
           /\ (last'[2]["ChainId"] = "undef" \/ last'[2]["JsonRpcUrl"] = "undef")) =>
          ChainItems(inflight') = ChainItems(inflight)]_vars

\* C12 witness: a batch with JsonRpcUrl and no ChainId has been handled and no chain
\* update is under way.
C12_UrlOnlyBatch ==
  /\ last[1] = "batch"
  /\ last[2]["JsonRpcUrl"] # "undef"
  /\ last[2]["ChainId"] = "undef"
  /\ ChainItems(inflight) = 0

\* C13: nothing is de-duplicated.  Every batch that holds ChainId and JsonRpcUrl
\* starts a chain update of its own, whatever is under way or was delivered before,
\* and every chain update whose two values decrypt ends in a chainUpdated callback
\* with the decrypted pair while the engine holds its listener.
C13_NoDedup ==
  [][/\ (/\ last'[1] = "batch"
         /\ last'[2]["ChainId"] # "undef"
         /\ last'[2]["JsonRpcUrl"] # "undef") =>
          ChainItems(inflight') = ChainItems(inflight) + 1
     /\ \A i \in 1..Len(inflight) :
          (/\ inflight[i].kind = "chain"
           /\ inflight[i].p # "undef"
           /\ inflight[i].c2 # "bad"
           /\ Len(inflight') < Len(inflight)
           /\ inflight' = Without(inflight, i)
           /\ listener) =>
            last' = <<"callback", "chainUpdated", inflight[i].p, Decrypt(inflight[i].c2)>>]_vars

\* C13 witness: the same batch came twice; the callback of the first delivery has
\* just been made with the decrypted pair and the update of the second is under way.
C13_SamePairAgain ==
  /\ last = <<"callback", "chainUpdated", Decrypt("c1"), Decrypt("c1")>>
  /\ \E i \in 1..Len(inflight) :
       inflight[i].kind = "chain" /\ inflight[i].c = "c1" /\ inflight[i].c2 = "c1"

\* The ciphertext whose decryption item it awaits.
Awaited(it) == IF it.kind = "chain" /\ it.p # "undef" THEN it.c2 ELSE it.c

\* C14: a batch starts the decryption of every recognized key it holds, whatever the
\* values; a decryption that fails ends the handler of its own key only: the other
\* awaited decryptions stay as they are, nothing reaches the transport or the
\* engine's flags, and a key of the same or another batch whose value decrypts still
\* gets its callback.
C14_FailureIsIsolated ==
  [][/\ last'[1] = "batch" => Len(inflight') = Len(inflight) + Starts(last'[2])
     /\ last'[1] = "decryptFailed" =>
          /\ \E i \in 1..Len(inflight) :
               Awaited(inflight[i]) = "bad" /\ inflight' = Without(inflight, i)
          /\ webSocket' = webSocket
          /\ sockets' = sockets
          /\ destroyed' = destroyed
          /\ listener' = listener
          /\ reconnectTimers' = reconnectTimers
     /\ \A i \in 1..Len(inflight) :
          (/\ Awaited(inflight[i]) # "bad"
           /\ inflight[i].kind \in {"account", "username", "appversion"}
           /\ Len(inflight') < Len(inflight)
           /\ inflight' = Without(inflight, i)
           /\ listener) =>
            /\ last'[1] = "callback"
            /\ last'[Len(last')] = Decrypt(inflight[i].c)]_vars

\* C14 witness: of a batch with EthereumAddress and WalletUsername the address has
\* just failed to decrypt while the username, which will decrypt, is still awaited.
C14_OneFailedOtherAwaited ==
  /\ last = <<"decryptFailed", "account">>
  /\ inflight = <<[kind |-> "username", c |-> "c1", c2 |-> "undef", p |-> "undef"]>>
  /\ listener

\* C15: a metadata batch asks the listener to reset and reload, once, exactly when
\* its __destroyed value is "1"; with any other value, or without the key, the batch
\* handler itself calls nothing on the listener.
C15_ResetOnlyOnOne ==
  last[1] = "batch" =>
    /\ (last[2]["__destroyed"] = "1" /\ listener) <=> last[3] = "callback"
    /\ (last[2]["__destroyed"] = "1" /\ ~listener) <=> last[3] = "skipped"
    /\ last[2]["__destroyed"] # "1" <=> last[3] = "none"

\* C15 witness: a batch with __destroyed "1" has just reached the listener.
C15_ResetDelivered ==
  last[1] = "batch" /\ last[2]["__destroyed"] = "1" /\ last[3] = "callback"

\* The number of awaited decryptions of kind k for the ciphertext c.
Awaiting(q, k, c) == Cardinality({i \in 1..Len(q) : q[i].kind = k /\ q[i].c = c})

\* The batch key behind each kind of awaited decryption, and the listener call it ends in.
KeyOf(k) ==
  IF k = "account" THEN "EthereumAddress"
  ELSE IF k = "username" THEN "WalletUsername" ELSE "AppVersion"

EventOf(k, value) ==
  IF k = "account" THEN <<"accountUpdated", value>>
  ELSE IF k = "username" THEN <<"metadataUpdated", "walletUsername", value>>
  ELSE <<"metadataUpdated", "AppVersion", value>>

\* C16: a batch starts exactly one decryption, of the batch's value, for each of
\* EthereumAddress, WalletUsername and AppVersion it holds and none for a key it
\* does not hold; a decryption that succeeds ends in exactly one listener call,
\* accountUpdated(value), metadataUpdated(walletUsername, value) or
\* metadataUpdated(AppVersion, value), carrying the decrypted value; and no such
\* call is made except by the end of such a decryption.
C16_OneEventPerKey ==
  [][/\ last'[1] = "batch" =>
          \A k \in {"account", "username", "appversion"} : \A c \in Cipher :
            Awaiting(inflight', k, c) =
              Awaiting(inflight, k, c) + (IF last'[2][KeyOf(k)] = c THEN 1 ELSE 0)
     /\ \A i \in 1..Len(inflight) :
          (/\ inflight[i].kind \in {"account", "username", "appversion"}
           /\ inflight[i].c # "bad"
           /\ Len(inflight') < Len(inflight)
           /\ inflight' = Without(inflight, i)) =>
            last' = <<(IF listener THEN "callback" ELSE "skipped")>>
                      \o EventOf(inflight[i].kind, Decrypt(inflight[i].c))
     /\ (last'[1] = "callback" /\ last'[2] \in {"accountUpdated", "metadataUpdated"}) =>
          \E i \in 1..Len(inflight) :
            /\ inflight[i].kind \in {"account", "username", "appversion"}
            /\ inflight' = Without(inflight, i)
            /\ last' = <<"callback">> \o EventOf(inflight[i].kind, Decrypt(inflight[i].c))]_vars

\* C16 witness: the AppVersion of a batch has been decrypted and delivered while the
\* WalletUsername of the same batch is still awaited.
C16_AppVersionDelivered ==
  /\ last = <<"callback", "metadataUpdated", "AppVersion", "p1">>
  /\ inflight = <<[kind |-> "username", c |-> "c1", c2 |-> "undef", p |-> "undef"]>>

\* The decryptions a list of event messages starts when each is handled as a live
\* push is: one per Web3Response event, of its data, in the order of the list.
RECURSIVE Web3Items(_)
Web3Items(es) ==
  IF es = <<>> THEN <<>>
  ELSE (IF es[1][1] = "Web3Response"
          THEN <<[kind |-> "web3", c |-> es[1][2], c2 |-> "undef", p |-> "undef"]>>
          ELSE <<>>) \o Web3Items(Tail(es))

C18_FailReplyFailsCaller ==
  \A id \in Ids :
    (last = <<"reply", id, "fail">> /\ callers[id] # "none") => callers[id] = "failed"

\* C19: once the timeout of a request has fired, requestResolutions holds no entry
\* for its id.
C19_TimedOutEntryRemoved ==
  \A id \in Ids : outcome[id] = "timeout" => id \notin table

\* C20: a message given to the transport's send is, when the send returns, in the
\* pending queue or handed to the socket, whatever the state of the connection; in
\* particular a send made while the socket is still connecting queues the message.
C20_SendQueuesUnlessOpen ==
  \A id \in Ids :
    msgType[id] = "GetSessionConfig" =>
      \/ txCount[id] > 0
      \/ \E i \in 1..Len(pendingData) : pendingData[i] = id

\* C21: on an engine that is not destroyed, a transport that is open again after the
\* watchdog's disconnect has the engine as its listener: the engine is told of the
\* open and gets the inbound messages.
C21_EngineHearsReopen ==
  (~destroyed /\ webSocket = "open") => wsListener

\* C22: a tick of a heartbeat timer disconnects the transport exactly when more than
\* twice the heartbeat interval has passed since lastHeartbeatResponse; a tick that
\* disconnects sends no pulse, and a tick that finds the age within the bound leaves
\* the socket, the listener and the reconnect delays as they are.
C22_DisconnectIffOverdue ==
  [][last'[1] = "tick" =>
       /\ last'[2] = stale
       /\ (stale /\ webSocket # "null") =>
            /\ webSocket' = "null"
            /\ sockets' = sockets - 1
            /\ sent' = <<>>
       /\ ~stale =>
            /\ webSocket' = webSocket
            /\ sockets' = sockets
            /\ wsListener' = wsListener
            /\ reconnectTimers' = reconnectTimers
            /\ sent' = (IF webSocket = "open" THEN <<0>> ELSE <<>>)]_vars

\* C22 witness: a tick has found the liveness overdue on an open socket and has
\* closed it.
C22_WatchdogDisconnected ==
  /\ last = <<"tick", TRUE>>
  /\ webSocket = "null"
  /\ ~wsListener
  /\ sockets = 0
  /\ hbTimers > 0

\* C23: when the peer's pulse has been handled, lastHeartbeatResponse is the present
\* time, so the liveness is not overdue.
C23_PulseRefreshesLiveness ==
  last = <<"pulse">> => ~stale

Replaced(id) ==
  msgType[id] = "SetSessionConfig" /\ outcome[id] = "none" /\ onceConnected # id

\* C25: a setSessionMetadata call made while not connected puts its continuation in
\* the slot in place of whatever was there; when connected becomes true the
\* continuation in the slot makes its request, once, and the slot is emptied; a
\* replaced continuation stays replaced and its message is never sent; no
\* SetSessionConfig message is sent twice.
C25_OnlyLatestContinuationRuns ==
  [][/\ (nextReqId' = nextReqId + 1 /\ msgType'[nextReqId] = "SetSessionConfig"
           /\ ~connected) =>
          /\ onceConnected' = nextReqId
          /\ txCount' = txCount
     /\ (connected' /\ ~connected /\ onceConnected # 0) =>
          /\ onceConnected' = 0
          /\ outcome'[onceConnected] = "pending"
          /\ txCount'[onceConnected] = 1
          /\ \A id \in Ids \ {onceConnected} :
               msgType[id] = "SetSessionConfig" => txCount'[id] = txCount[id]
     /\ \A id \in Ids :
          /\ Replaced(id) => (Replaced(id)' /\ txCount'[id] = 0)
          /\ msgType'[id] = "SetSessionConfig" => txCount'[id] <= 1]_vars

\* C25 witness: of two setSessionMetadata calls made before the open the second has
\* made its request at the open and the first has not and never will.
C25_SecondRanFirstReplaced ==
  /\ msgType[1] = "SetSessionConfig" /\ msgType[2] = "SetSessionConfig"
  /\ connected /\ onceConnected = 0
  /\ outcome[1] = "none" /\ txCount[1] = 0 /\ callers[1] = "pending"
  /\ outcome[2] = "pending" /\ txCount[2] = 1

\* C26: the listener's handleWeb3ResponseMessage is invoked for the Web3Response
\* events in the order they arrived: each invocation is for the earliest event
\* whose decryption is still awaited.
C26_ResponsesInArrivalOrder ==
  [][(last'[1] = "callback" /\ last'[2] = "handleWeb3ResponseMessage") =>
       /\ inflight # <<>>
       /\ last'[3] = Decrypt(inflight[1].c)
       /\ inflight' = Tail(inflight)]_vars

\* C27: one close of the transport, the close of a connect attempt that never opened
\* included, starts at most one reconnect delay.
C27_OneDelayPerClose ==
  [][last'[1] = "close" => reconnectTimers' <= reconnectTimers + 1]_vars

\* C28: the engine's connected flag is true only while the transport is open.
C28_ConnectedTracksTransport ==
  (connected /\ ~destroyed) => webSocket = "open"

\* C30: at most one periodic heartbeat timer is running.
C30_OneHeartbeatTimer ==
  hbTimers <= 1

\* C29: the first message the open handler hands to the new socket is the
\* authenticate (HostSession) request.
C29_AuthenticateGoesFirst ==
  last[1] = "open" => (sent # <<>> /\ msgType[sent[1]] = "HostSession")

====
